---- MODULE Spec2Model ----
(***************************************************************************)
(* Model of the dev-events data layer: the Event and Booking Mongoose      *)
(* models with their pre-save hooks, the pure normalisers they call        *)
(* (slugifyTitle, normalizeSingleTime, normalizeTime) and the cached       *)
(* database connection (connectToDatabase).                                *)
(*                                                                         *)
(* JavaScript strings are sequences of one-character strings, so that      *)
(* trimming, splitting and the regular expressions are computed and not    *)
(* assumed.                                                                *)
(***************************************************************************)
EXTENDS Naturals, Sequences, FiniteSets

VARIABLES
    titleIn,     \* argument handed to slugifyTitle
    slugOut,     \* its result
    timeSrc,     \* how the time argument was put together
    timeIn,      \* argument handed to normalizeTime / normalizeSingleTime
    timeOut,     \* result of normalizeTime(timeIn)
    timeOut2,    \* result of normalizeTime on the value of timeOut
    singleOut,   \* result of normalizeSingleTime(timeIn)
    saveIn,      \* an Event document handed to save(), with its modified paths
    saveOut,     \* what validation and the pre-save hook made of saveIn
    events,      \* the Event collection: id -> stored document
    bookings,    \* the Booking collection: id -> stored document
    task,        \* the save operations in flight, one slot per request handler
    nextEvent,   \* next fresh Event _id
    nextBooking, \* next fresh Booking _id
    ops,         \* number of operations started so far
    cached,      \* the cache objects, globalThis.mongooseCache, the module's binding
    attempt,     \* state of each mongoose.connect attempt issued so far
    caller,      \* the connectToDatabase() calls in flight
    reloads      \* number of re-evaluations of the connection module

pureVars == <<titleIn, slugOut, timeSrc, timeIn, timeOut, timeOut2, singleOut,
              saveIn, saveOut>>
dbVars   == <<events, bookings, task, nextEvent, nextBooking, ops>>
connVars == <<cached, attempt, caller, reloads>>
vars     == <<titleIn, slugOut, timeSrc, timeIn, timeOut, timeOut2, singleOut,
              saveIn, saveOut,
              events, bookings, task, nextEvent, nextBooking, ops,
              cached, attempt, caller, reloads>>

----------------------------------------------------------------------------
(* Characters and the String.prototype methods the code calls.             *)

Digits == <<"0", "1", "2", "3", "4", "5", "6", "7", "8", "9">>

LowerLetters ==
    <<"a", "b", "c", "d", "e", "f", "g", "h", "i", "j", "k", "l", "m",
      "n", "o", "p", "q", "r", "s", "t", "u", "v", "w", "x", "y", "z">>

UpperLetters ==
    <<"A", "B", "C", "D", "E", "F", "G", "H", "I", "J", "K", "L", "M",
      "N", "O", "P", "Q", "R", "S", "T", "U", "V", "W", "X", "Y", "Z">>

Range(f) == { f[i] : i \in DOMAIN f }

IsDigit(c) == c \in Range(Digits)

\* The class [a-z0-9] of the slug regular expression.
IsSlugChar(c) == c \in Range(LowerLetters) \/ IsDigit(c)

\* The class \s, also what trim() removes.
IsSpace(c) == c \in {" ", "\t", "\n"}

DigitVal(c) == (CHOOSE i \in DOMAIN Digits : Digits[i] = c) - 1

\* One character of toLowerCase(): ASCII capitals, and one capital outside ASCII.
LowerChar(c) ==
    IF c \in Range(UpperLetters)
    THEN LowerLetters[CHOOSE i \in DOMAIN UpperLetters : UpperLetters[i] = c]
    ELSE IF c = "É" THEN "é" ELSE c

ToLowerCase(s) == [i \in DOMAIN s |-> LowerChar(s[i])]

ToUpperCase(s) ==
    [i \in DOMAIN s |->
        IF s[i] \in Range(LowerLetters)
        THEN UpperLetters[CHOOSE k \in DOMAIN LowerLetters : LowerLetters[k] = s[i]]
        ELSE s[i]]

RECURSIVE TrimStart(_)
TrimStart(s) ==
    IF s # <<>> /\ IsSpace(Head(s)) THEN TrimStart(Tail(s)) ELSE s

RECURSIVE TrimEnd(_)
TrimEnd(s) ==
    IF s # <<>> /\ IsSpace(s[Len(s)]) THEN TrimEnd(SubSeq(s, 1, Len(s) - 1)) ELSE s

Trim(s) == TrimEnd(TrimStart(s))

----------------------------------------------------------------------------
(* slugifyTitle                                                            *)

\* .replace(/[^a-z0-9]+/g, "-"): every maximal run of other characters
\* becomes one hyphen.
RECURSIVE ReplaceNonSlugRuns(_)
ReplaceNonSlugRuns(s) ==
    IF s = <<>> THEN <<>>
    ELSE IF IsSlugChar(Head(s)) THEN <<Head(s)>> \o ReplaceNonSlugRuns(Tail(s))
    ELSE IF Len(s) >= 2 /\ ~IsSlugChar(s[2]) THEN ReplaceNonSlugRuns(Tail(s))
    ELSE <<"-">> \o ReplaceNonSlugRuns(Tail(s))

\* .replace(/(^-|-$)+/g, ""): ^- matches only at index 0 and -$ only at the
\* last index, so one hyphen goes from each end.
StripEdgeHyphens(s) ==
    LET a == IF s # <<>> /\ Head(s) = "-" THEN Tail(s) ELSE s
    IN  IF a # <<>> /\ a[Len(a)] = "-" THEN SubSeq(a, 1, Len(a) - 1) ELSE a

\* .replace(/-{2,}/g, "-")
RECURSIVE CollapseHyphens(_)
CollapseHyphens(s) ==
    IF s = <<>> THEN <<>>
    ELSE IF Head(s) = "-" /\ Len(s) >= 2 /\ s[2] = "-" THEN CollapseHyphens(Tail(s))
    ELSE <<Head(s)>> \o CollapseHyphens(Tail(s))

\* slugifyTitle with the edge-stripping replace left out.
SlugifyNoStrip(title) ==
    CollapseHyphens(ReplaceNonSlugRuns(ToLowerCase(Trim(title))))

slugifyTitle(title) ==
    CollapseHyphens(StripEdgeHyphens(ReplaceNonSlugRuns(ToLowerCase(Trim(title)))))

----------------------------------------------------------------------------
(* pad2, normalizeSingleTime, normalizeTime                                *)

\* Number(s) for a string of decimal digits.
RECURSIVE Number(_)
Number(s) ==
    IF s = <<>> THEN 0 ELSE 10 * Number(SubSeq(s, 1, Len(s) - 1)) + DigitVal(s[Len(s)])

\* n.toString() for a natural number.
RECURSIVE NumToString(_)
NumToString(n) ==
    IF n < 10 THEN <<Digits[n + 1]>> ELSE NumToString(n \div 10) \o <<Digits[(n % 10) + 1]>>

\* pad2 without the padStart.
Pad2NoPad(n) == NumToString(n)

pad2(n) ==
    LET s == NumToString(n) IN IF Len(s) < 2 THEN <<"0">> \o s ELSE s

\* A returned value or a thrown Error; err names the message, arg the text
\* the message quotes.
Ok(v)       == [ok |-> TRUE,  val |-> v,    err |-> "",   arg |-> <<>>]
Throw(e, a) == [ok |-> FALSE, val |-> <<>>, err |-> e,    arg |-> a]
NoRes       == [ok |-> FALSE, val |-> <<>>, err |-> "not called", arg |-> <<>>]

\* [0-5]\d
IsMinute(m) == Len(m) = 2 /\ m[1] \in {"0", "1", "2", "3", "4", "5"} /\ IsDigit(m[2])

\* ([01]?\d|2[0-3])
IsHour24(h) ==
    \/ Len(h) = 1 /\ IsDigit(h[1])
    \/ Len(h) = 2 /\ h[1] \in {"0", "1"} /\ IsDigit(h[2])
    \/ Len(h) = 2 /\ h[1] = "2" /\ h[2] \in {"0", "1", "2", "3"}

\* (1[0-2]|0?[1-9])
IsHour12(h) ==
    \/ Len(h) = 2 /\ h[1] = "1" /\ h[2] \in {"0", "1", "2"}
    \/ Len(h) = 1 /\ IsDigit(h[1]) /\ h[1] # "0"
    \/ Len(h) = 2 /\ h[1] = "0" /\ IsDigit(h[2]) /\ h[2] # "0"

\* <<hour, minute>> when s is hour ":" minute, with a two-character minute.
HasHourMinute(s) == Len(s) >= 4 /\ s[Len(s) - 2] = ":"
HourOf(s)   == SubSeq(s, 1, Len(s) - 3)
MinuteOf(s) == SubSeq(s, Len(s) - 1, Len(s))

\* /^([01]?\d|2[0-3]):([0-5]\d)$/
Match24(s) == HasHourMinute(s) /\ IsHour24(HourOf(s)) /\ IsMinute(MinuteOf(s))

\* /^(1[0-2]|0?[1-9]):([0-5]\d)\s*([AaPp][Mm])$/ : the meridiem is the last
\* two characters, \s* what lies between it and the minute.
MeridiemOf(s) == SubSeq(s, Len(s) - 1, Len(s))
BeforeMeridiem(s) == TrimEnd(SubSeq(s, 1, Len(s) - 2))
Match12(s) ==
    /\ Len(s) >= 2
    /\ s[Len(s) - 1] \in {"A", "a", "P", "p"}
    /\ s[Len(s)] \in {"M", "m"}
    /\ HasHourMinute(BeforeMeridiem(s))
    /\ IsHour12(HourOf(BeforeMeridiem(s)))
    /\ IsMinute(MinuteOf(BeforeMeridiem(s)))

\* The conversion with 12 AM left at 12 and 12 PM pushed to 24.
Hour24Naive(hour12, meridiem) ==
    IF meridiem = <<"A", "M">> THEN hour12 ELSE hour12 + 12

\* The conversion with only midnight forgotten: 12 AM stays 12.
Hour24NoMidnight(hour12, meridiem) ==
    IF meridiem = <<"A", "M">>
    THEN hour12
    ELSE (IF hour12 = 12 THEN 12 ELSE hour12 + 12)

Hour24(hour12, meridiem) ==
    IF meridiem = <<"A", "M">>
    THEN (IF hour12 = 12 THEN 0 ELSE hour12)
    ELSE (IF hour12 = 12 THEN 12 ELSE hour12 + 12)

normalizeSingleTime(input) ==
    LET trimmed == Trim(input) IN
    IF Match24(trimmed)
    THEN Ok(pad2(Number(HourOf(trimmed))) \o <<":">> \o MinuteOf(trimmed))
    ELSE IF Match12(trimmed)
    THEN LET hm       == BeforeMeridiem(trimmed)
             hour12   == Number(HourOf(hm))
             minute   == MinuteOf(hm)
             meridiem == ToUpperCase(MeridiemOf(trimmed))
         IN  Ok(pad2(Hour24(hour12, meridiem)) \o <<":">> \o minute)
    ELSE Throw("Invalid time format", input)

\* input.split("-")
RECURSIVE SplitHyphen(_)
SplitHyphen(s) ==
    IF \A i \in DOMAIN s : s[i] # "-" THEN <<s>>
    ELSE LET k == CHOOSE i \in DOMAIN s : s[i] = "-" /\ \A j \in 1..(i - 1) : s[j] # "-"
         IN  <<SubSeq(s, 1, k - 1)>> \o SplitHyphen(SubSeq(s, k + 1, Len(s)))

\* .map((p) => p.trim()).filter((p) => p.length > 0)
TimeParts(input) ==
    LET trimmed == [i \in DOMAIN SplitHyphen(input) |-> Trim(SplitHyphen(input)[i])]
    IN  SelectSeq(trimmed, LAMBDA p : Len(p) > 0)

\* normalizeTime taking the first two tokens of however many there are.
NormalizeTimeAnyCount(input) ==
    LET parts == TimeParts(input) IN
    IF Len(parts) = 0 THEN Throw("Invalid time range", input)
    ELSE IF Len(parts) = 1 THEN normalizeSingleTime(parts[1])
    ELSE LET a == normalizeSingleTime(parts[1])
             b == normalizeSingleTime(parts[2])
         IN  IF ~a.ok THEN a
             ELSE IF ~b.ok THEN b
             ELSE Ok(a.val \o <<"-">> \o b.val)

normalizeTime(input) ==
    LET parts == TimeParts(input) IN
    IF Len(parts) = 1 THEN normalizeSingleTime(parts[1])
    ELSE IF Len(parts) = 2
    THEN LET a == normalizeSingleTime(parts[1])
             b == normalizeSingleTime(parts[2])
         IN  IF ~a.ok THEN a
             ELSE IF ~b.ok THEN b
             ELSE Ok(a.val \o <<"-">> \o b.val)
    ELSE Throw("Invalid time range", input)

----------------------------------------------------------------------------
(* Inputs of the pure functions.                                           *)

MaxTitleLen == 4
MaxHourIn   == 25
MaxMinuteIn == 60

TitleAlphabet == {"a", "B", "1", " ", "-", "!", "É"}

Titles == UNION { [1..k -> TitleAlphabet] : k \in 0..MaxTitleLen }

\* Two decimal digits of n < 100, written out independently of pad2.
TwoDigits(n) == <<Digits[(n \div 10) + 1], Digits[(n % 10) + 1]>>

Suffixes ==
    { <<>>, <<" ", "A", "M">>, <<" ", "P", "M">>, <<"a", "m">>, <<"p", "M">>,
      <<" ", " ", "P", "M">>, <<" ", "X", "M">>, <<"A", "M", " ">> }

\* A time token: hour h written with or without a leading zero, minute m
\* written with two digits, and a suffix.
Tokens ==
    { t \in [h : 0..MaxHourIn, pad : BOOLEAN, m : 0..MaxMinuteIn, sfx : Suffixes] :
        t.pad => t.h < 10 }

RenderToken(t) ==
    (IF t.pad THEN TwoDigits(t.h) ELSE NumToString(t.h))
        \o <<":">> \o TwoDigits(t.m) \o t.sfx

\* The tokens ranges are built from.
RangeTokens ==
    { t \in Tokens :
        /\ t.h \in {0, 9, 12, 13, 24}
        /\ t.m \in {0, 59}
        /\ ~t.pad
        /\ t.sfx \in { <<>>, <<" ", "A", "M">>, <<" ", "P", "M">> } }

Separators == { <<"-">>, <<" ", "-", " ">>, <<"-", "-">> }

NoToken == [h |-> 0, pad |-> FALSE, m |-> 0, sfx |-> <<>>]

OddTexts ==
    { <<>>, <<"-">>, <<" ">>, <<"9", ":", "0", "0", "-">>, <<"-", "9", ":", "0", "0">>,
      <<"9", ":", "5">>, <<"9", ":", "5", " ", "P", "M">>, <<"9", ".", "0", "0">>,
      <<"n", "o", "o", "n">>, <<"1", ":", "0", "0", "-", "2", ":", "0", "0", "-", "3", ":", "0", "0">>,
      <<"0", "1", "2", ":", "0", "0">>, <<"9", ":", "0", "0", ":", "0", "0">>,
      <<"9", ":", "0", "0", " ", "A", "M", " ", "P", "M">> }

TimeSources ==
    { [kind |-> "single", a |-> t, b |-> NoToken, sep |-> <<>>, text |-> <<>>] :
        t \in Tokens }
    \cup
    { [kind |-> "range", a |-> x[1], b |-> x[2], sep |-> x[3], text |-> <<>>] :
        x \in RangeTokens \X RangeTokens \X Separators }
    \cup
    { [kind |-> "odd", a |-> NoToken, b |-> NoToken, sep |-> <<>>, text |-> x] :
        x \in OddTexts }

NoSource == [kind |-> "none", a |-> NoToken, b |-> NoToken, sep |-> <<>>, text |-> <<>>]

RenderSource(src) ==
    IF src.kind = "single" THEN RenderToken(src.a)
    ELSE IF src.kind = "range" THEN RenderToken(src.a) \o src.sep \o RenderToken(src.b)
    ELSE src.text

----------------------------------------------------------------------------
(* The pure functions applied to every input of the bounded sets.          *)

\* No save handed over, none run.
NoSave == [doc |-> <<>>, modified |-> {}, err |-> "none"]

PureIdle ==
    /\ titleIn = <<>>
    /\ slugOut = NoRes
    /\ timeSrc = NoSource
    /\ timeIn = <<>>
    /\ timeOut = NoRes
    /\ timeOut2 = NoRes
    /\ singleOut = NoRes
    /\ saveIn = NoSave
    /\ saveOut = NoSave

CallSlugify ==
    /\ slugOut = NoRes
    /\ slugOut' = Ok(slugifyTitle(titleIn))
    /\ UNCHANGED <<titleIn, timeSrc, timeIn, timeOut, timeOut2, singleOut>>
    /\ UNCHANGED <<saveIn, saveOut>>
    /\ UNCHANGED <<dbVars, connVars>>

CallNormalizeTime ==
    /\ timeOut = NoRes
    /\ timeOut' = normalizeTime(timeIn)
    /\ UNCHANGED <<titleIn, slugOut, timeSrc, timeIn, timeOut2, singleOut>>
    /\ UNCHANGED <<saveIn, saveOut>>
    /\ UNCHANGED <<dbVars, connVars>>

\* normalizeTime applied to what an earlier call returned.
CallNormalizeTimeAgain ==
    /\ timeOut.ok
    /\ timeOut2 = NoRes
    /\ timeOut2' = normalizeTime(timeOut.val)
    /\ UNCHANGED <<titleIn, slugOut, timeSrc, timeIn, timeOut, singleOut>>
    /\ UNCHANGED <<saveIn, saveOut>>
    /\ UNCHANGED <<dbVars, connVars>>

CallNormalizeSingleTime ==
    /\ singleOut = NoRes
    /\ singleOut' = normalizeSingleTime(timeIn)
    /\ UNCHANGED <<titleIn, slugOut, timeSrc, timeIn, timeOut, timeOut2>>
    /\ UNCHANGED <<saveIn, saveOut>>
    /\ UNCHANGED <<dbVars, connVars>>

----------------------------------------------------------------------------
(* The Event model: schema, pre-save hook, unique index.                   *)

MaxOps == 3

\* Two request handlers saving at the same time.
Tasks == {1, 2}

\* The string fields of the schema besides title, date and time
\* (description, overview, image, venue, location, mode, audience,
\* organizer) are declared alike and checked by the same loop; description
\* stands for them.
EventFields == {"title", "slug", "date", "time", "description"}

BlankEvent ==
    [title |-> <<>>, slug |-> <<>>, date |-> <<>>, time |-> <<>>, description |-> <<>>]

BlankBooking == [eventId |-> 0, email |-> <<>>]

\* What callers put into an Event.
TitleInputs == { <<"A", " ", "b">>, <<"a", "-", "b">>, <<"C">> }
DateInputs  == { <<"2", "0", "2", "5", "-", "0", "1", "-", "1", "5">>, <<"s", "o", "o", "n">> }
TimeInputs  ==
    { <<"2", ":", "3", "0", " ", "P", "M">>,
      <<"9", ":", "0", "0", " ", "-", " ", "1", "0", ":", "0", "0">>,
      <<"2", "5", ":", "0", "0">> }
TextInputs  == { <<"d">>, <<" ">> }
SlugInputs  == { <<"X", " ", "y">> }

IsoSuffix == <<"T", "0", "0", ":", "0", "0", ":", "0", "0", ".", "0", "0", "0", "Z">>

\* yyyy-mm-dd
IsDateOnly(s) ==
    /\ Len(s) = 10
    /\ \A i \in {1, 2, 3, 4, 6, 7, 9, 10} : IsDigit(s[i])
    /\ s[5] = "-" /\ s[8] = "-"
    /\ Number(SubSeq(s, 6, 7)) \in 1..12
    /\ Number(SubSeq(s, 9, 10)) \in 1..28

\* new Date(s) followed by toISOString(), for the two shapes the model
\* feeds it: a date-only form, read as UTC midnight, and the ISO string
\* toISOString() itself produces. Anything else is an Invalid Date.
ParseDate(s) ==
    IF IsDateOnly(s) THEN Ok(s \o IsoSuffix)
    ELSE IF Len(s) = 24 /\ IsDateOnly(SubSeq(s, 1, 10)) /\ SubSeq(s, 11, 24) = IsoSuffix
    THEN Ok(s)
    ELSE Throw("Invalid date", s)

\* A pre-save outcome: the document as the hook left it, the paths marked
\* modified, and the error thrown ("" when none).
Outcome(doc, modified, err) == [doc |-> doc, modified |-> modified, err |-> err]

\* doc[path] = value: Mongoose marks the path modified when the value changes.
Assign(o, path, value) ==
    IF o.doc[path] = value THEN o
    ELSE Outcome([o.doc EXCEPT ![path] = value], o.modified \cup {path}, o.err)

\* Schema validation, which Mongoose runs as the first pre-save hook:
\* title, date, time and the other string fields are trimmed by their
\* setters and required.
EventSchemaValidate(o) ==
    IF o.err # "" THEN o
    ELSE IF \E f \in EventFields \ {"slug"} : o.doc[f] = <<>>
    THEN Outcome(o.doc, o.modified, "ValidationError: Path is required.")
    ELSE o

\* The slug step without its isModified guard.
DeriveSlugAlways(o) ==
    IF o.err # "" THEN o ELSE Assign(o, "slug", slugifyTitle(o.doc.title))

\* if (doc.isModified("title")) doc.slug = slugifyTitle(doc.title)
DeriveSlug(o) ==
    IF o.err # "" THEN o
    ELSE IF "title" \in o.modified THEN Assign(o, "slug", slugifyTitle(o.doc.title))
    ELSE o

NormalizeDateField(o) ==
    IF o.err # "" THEN o
    ELSE LET r == ParseDate(o.doc.date) IN
         IF r.ok THEN Assign(o, "date", r.val)
         ELSE Outcome(o.doc, o.modified, r.err)

\* The time step with a failure of normalizeTime swallowed.
NormalizeTimeFieldLenient(o) ==
    IF o.err # "" THEN o
    ELSE LET r == normalizeTime(o.doc.time) IN
         IF r.ok THEN Assign(o, "time", r.val) ELSE o

NormalizeTimeField(o) ==
    IF o.err # "" THEN o
    ELSE LET r == normalizeTime(o.doc.time) IN
         IF r.ok THEN Assign(o, "time", r.val)
         ELSE Outcome(o.doc, o.modified, r.err)

\* The loop over requiredStringFields.
CheckNonEmpty(o) ==
    IF o.err # "" THEN o
    ELSE IF \E f \in EventFields \ {"slug"} : Trim(o.doc[f]) = <<>>
    THEN Outcome(o.doc, o.modified, "Field cannot be empty.")
    ELSE o

\* The hook with the time step ahead of the date step.
EventPreSaveTimeFirst(o) ==
    CheckNonEmpty(NormalizeDateField(NormalizeTimeField(DeriveSlug(o))))

\* EventSchema.pre("save"): the steps in the order of the code.
EventPreSave(o) ==
    CheckNonEmpty(NormalizeTimeField(NormalizeDateField(DeriveSlug(o))))

\* The unique index on slug never taken into account.
SlugNeverTaken(slug, self) == FALSE

\* The unique index on slug: another stored event holds this slug.
SlugTaken(slug, self) ==
    \E e \in DOMAIN events : e # self /\ events[e].slug = slug

IdleTask ==
    [pc |-> "idle", op |-> "none", isNew |-> FALSE, id |-> 0,
     doc |-> BlankEvent, bk |-> BlankBooking, modified |-> {}, err |-> ""]

\* save() rejects: the error goes to the caller, the document stays transient.
Failed(op, err) == [IdleTask EXCEPT !.pc = "rejected", !.op = op, !.err = err]

Rejected(t, err) == Failed(task[t].op, err)

\* save() resolves with the document stored under id.
Done(op, id) == [IdleTask EXCEPT !.pc = "persisted", !.op = op, !.id = id]

\* new Event(fields).save() up to the insert being sent: the setters trim,
\* then validation and the pre-save hook run.
EventCreate(t) ==
    /\ task[t].pc = "idle"
    /\ ops < MaxOps
    /\ \E title \in TitleInputs, date \in DateInputs, time \in TimeInputs,
          text \in TextInputs :
          LET doc == [title |-> Trim(title), slug |-> <<>>, date |-> Trim(date),
                      time |-> Trim(time), description |-> Trim(text)]
              o   == EventPreSave(EventSchemaValidate(
                         Outcome(doc, EventFields \ {"slug"}, "")))
              started == [IdleTask EXCEPT !.op = "event", !.isNew = TRUE,
                              !.doc = o.doc, !.modified = o.modified]
          IN  task' = [task EXCEPT ![t] =
                          IF o.err # "" THEN Failed("event", o.err)
                          ELSE [started EXCEPT !.pc = "writing"]]
    /\ ops' = ops + 1
    /\ UNCHANGED <<events, bookings, nextEvent, nextBooking>>
    /\ UNCHANGED <<pureVars, connVars>>

NoChange == <<"(unchanged)">>

\* What an update assigns to each field, NoChange when it leaves it alone.
TitleEdits == { NoChange, <<"a", "-", "b">>, <<"C">> }
SlugEdits  == { NoChange } \cup SlugInputs
DateEdits  == { NoChange, <<"s", "o", "o", "n">> }
TimeEdits  == { NoChange, <<"1", "2", ":", "0", "0", "a", "m">>, <<"2", "5", ":", "0", "0">> }
TextEdits  == { NoChange, <<" ">> }

\* A stored event is loaded, some of its fields are assigned, save() runs
\* validation and the hook; the update is then sent.
EventUpdate(t) ==
    /\ task[t].pc = "idle"
    /\ ops < MaxOps
    /\ \E e \in DOMAIN events :
       \E title \in TitleEdits, slug \in SlugEdits, date \in DateEdits,
          time \in TimeEdits, text \in TextEdits :
          LET set(o, path, v) == IF v = NoChange THEN o ELSE Assign(o, path, Trim(v))
              loaded == Outcome(events[e], {}, "")
              edited == set(set(set(set(set(loaded, "title", title), "slug", slug),
                            "date", date), "time", time), "description", text)
              o == EventPreSave(EventSchemaValidate(edited))
              started == [IdleTask EXCEPT !.op = "event", !.id = e,
                              !.doc = o.doc, !.modified = o.modified]
          IN  task' = [task EXCEPT ![t] =
                          IF o.err # "" THEN Failed("event", o.err)
                          ELSE [started EXCEPT !.pc = "writing"]]
    /\ ops' = ops + 1
    /\ UNCHANGED <<events, bookings, nextEvent, nextBooking>>
    /\ UNCHANGED <<pureVars, connVars>>

\* doc[path] = v through the trimming setter; NoChange assigns nothing.
SetField(o, path, v) == IF v = NoChange THEN o ELSE Assign(o, path, Trim(v))

\* A document as a handler hands it to save(): built by new Event(fields),
\* or loaded (here a stored event titled "C") and assigned to.
StoredEvent ==
    [title |-> <<"C">>, slug |-> <<"c">>,
     date |-> <<"2", "0", "2", "5", "-", "0", "1", "-", "1", "5">> \o IsoSuffix,
     time |-> <<"1", "4", ":", "3", "0">>, description |-> <<"d">>]

SaveInputs ==
    { Outcome([title |-> Trim(title), slug |-> <<>>, date |-> Trim(date),
               time |-> Trim(time), description |-> Trim(text)],
              EventFields \ {"slug"}, "") :
        title \in TitleInputs, date \in DateInputs, time \in TimeInputs,
        text \in TextInputs }
    \cup
    { SetField(SetField(SetField(SetField(SetField(Outcome(StoredEvent, {}, ""),
          "title", e[1]), "slug", e[2]), "date", e[3]), "time", e[4]),
          "description", e[5]) :
        e \in TitleEdits \X SlugEdits \X DateEdits \X TimeEdits \X TextEdits }

\* save() up to the write: validation, then the pre-save hook.
EventSave ==
    /\ saveOut = NoSave
    /\ saveOut' = EventPreSave(EventSchemaValidate(saveIn))
    /\ UNCHANGED <<titleIn, slugOut, timeSrc, timeIn, timeOut, timeOut2, singleOut, saveIn>>
    /\ UNCHANGED <<dbVars, connVars>>

\* The stored document after $set of the modified paths.
Merge(stored, doc, modified) ==
    [f \in DOMAIN stored |-> IF f \in modified THEN doc[f] ELSE stored[f]]

\* The database executes the insert or the update of an Event save.
EventWrite(t) ==
    /\ task[t].pc = "writing"
    /\ task[t].op = "event"
    /\ IF task[t].isNew
       THEN IF SlugTaken(task[t].doc.slug, 0)
            THEN /\ task' = [task EXCEPT ![t] = Rejected(t, "E11000 duplicate key")]
                 /\ UNCHANGED <<events, nextEvent>>
            ELSE /\ events' = [e \in DOMAIN events \cup {nextEvent} |->
                                 IF e = nextEvent THEN task[t].doc ELSE events[e]]
                 /\ nextEvent' = nextEvent + 1
                 /\ task' = [task EXCEPT ![t] = Done("event", nextEvent)]
       ELSE IF task[t].id \notin DOMAIN events
            THEN /\ task' = [task EXCEPT ![t] = Rejected(t, "DocumentNotFoundError")]
                 /\ UNCHANGED <<events, nextEvent>>
            ELSE IF "slug" \in task[t].modified /\ SlugTaken(task[t].doc.slug, task[t].id)
            THEN /\ task' = [task EXCEPT ![t] = Rejected(t, "E11000 duplicate key")]
                 /\ UNCHANGED <<events, nextEvent>>
            ELSE /\ events' = [events EXCEPT ![task[t].id] =
                                 Merge(events[task[t].id], task[t].doc, task[t].modified)]
                 /\ task' = [task EXCEPT ![t] = Done("event", task[t].id)]
                 /\ UNCHANGED nextEvent
    /\ UNCHANGED <<bookings, nextBooking, ops>>
    /\ UNCHANGED <<pureVars, connVars>>

\* Event.deleteOne({ _id: e }) by some other handler. Ids are never reused,
\* so the events created bound the deletions and ops does not count them.
EventDelete(e) ==
    /\ e \in DOMAIN events
    /\ events' = [x \in DOMAIN events \ {e} |-> events[x]]
    /\ UNCHANGED <<bookings, task, nextEvent, nextBooking, ops>>
    /\ UNCHANGED <<pureVars, connVars>>

\* save() has settled and the handler is done with it.
Return(t) ==
    /\ task[t].pc \in {"persisted", "rejected"}
    /\ task' = [task EXCEPT ![t] = IdleTask]
    /\ UNCHANGED <<events, bookings, nextEvent, nextBooking, ops>>
    /\ UNCHANGED <<pureVars, connVars>>

----------------------------------------------------------------------------
(* The Booking model: schema, email validator, referential pre-save hook.  *)

EmailInputs == { <<" ", "A", "@", "b", ".", "c">>, <<"a", "@", "b">> }

\* [^\s@]+
IsEmailPart(s) == s # <<>> /\ \A i \in DOMAIN s : ~IsSpace(s[i]) /\ s[i] # "@"

\* EMAIL_REGEX = /^[^\s@]+@[^\s@]+\.[^\s@]+$/
EmailMatches(v) ==
    \E i, j \in DOMAIN v :
        /\ i < j
        /\ v[i] = "@"
        /\ v[j] = "."
        /\ IsEmailPart(SubSeq(v, 1, i - 1))
        /\ IsEmailPart(SubSeq(v, i + 1, j - 1))
        /\ IsEmailPart(SubSeq(v, j + 1, Len(v)))

\* Schema validation of a Booking: eventId and email required, email
\* passed through the validator.
BookingSchemaValidate(bk) ==
    IF bk.email = <<>> THEN "ValidationError: Path is required."
    ELSE IF ~EmailMatches(bk.email) THEN "ValidationError: Invalid email address."
    ELSE ""

\* The existence read answering yes whatever the collection holds.
EventExistsAlways(id) == TRUE

\* Event.exists({ _id: id }) as the database answers it.
EventExists(id) == id \in DOMAIN events

\* The ids a caller can name: those of events created so far, and 0, an
\* ObjectId no event ever had.
KnownEventIds == 0..(nextEvent - 1)

\* The hook without its isModified guard: every save reads the Event collection.
BookingHookAlwaysChecks(started) == [started EXCEPT !.pc = "checking"]

\* The hook up to its await: it returns at once unless eventId is modified.
AfterBookingHookStart(started) ==
    IF "eventId" \in started.modified
    THEN [started EXCEPT !.pc = "checking"]
    ELSE [started EXCEPT !.pc = "writing"]

\* new Booking({ eventId, email }).save() up to the existence read being sent.
BookingCreate(t) ==
    /\ task[t].pc = "idle"
    /\ ops < MaxOps
    /\ \E eventId \in KnownEventIds, email \in EmailInputs :
          LET bk  == [eventId |-> eventId, email |-> ToLowerCase(Trim(email))]
              err == BookingSchemaValidate(bk)
              started == [IdleTask EXCEPT !.op = "booking", !.isNew = TRUE,
                              !.bk = bk, !.modified = {"eventId", "email"}]
          IN  task' = [task EXCEPT ![t] =
                          IF err # "" THEN Failed("booking", err)
                          ELSE AfterBookingHookStart(started)]
    /\ ops' = ops + 1
    /\ UNCHANGED <<events, bookings, nextEvent, nextBooking>>
    /\ UNCHANGED <<pureVars, connVars>>

\* The email assignments of an update: none, another address, a malformed one.
EmailEdits == { NoChange, <<"z", "@", "b", ".", "c">>, <<"a", "@", "b">> }

\* A stored booking is loaded, eventId and/or email are assigned, save() runs.
\* Assigning the value a path already holds leaves the path unmodified.
BookingUpdate(t) ==
    /\ task[t].pc = "idle"
    /\ ops < MaxOps
    /\ \E b \in DOMAIN bookings :
       \E eventId \in KnownEventIds \cup {bookings[b].eventId},
          email \in EmailEdits :
          LET e1 == Assign(Outcome(bookings[b], {}, ""), "eventId", eventId)
              e2 == IF email = NoChange THEN e1
                    ELSE Assign(e1, "email", ToLowerCase(Trim(email)))
              err == BookingSchemaValidate(e2.doc)
              started == [IdleTask EXCEPT !.op = "booking", !.id = b,
                              !.bk = e2.doc, !.modified = e2.modified]
          IN  task' = [task EXCEPT ![t] =
                          IF err # "" THEN Failed("booking", err)
                          ELSE AfterBookingHookStart(started)]
    /\ ops' = ops + 1
    /\ UNCHANGED <<events, bookings, nextEvent, nextBooking>>
    /\ UNCHANGED <<pureVars, connVars>>

\* The database answers Event.exists and the hook resumes after its await.
BookingCheck(t) ==
    /\ task[t].pc = "checking"
    /\ task' = [task EXCEPT ![t] =
                   IF EventExists(task[t].bk.eventId)
                   THEN [task[t] EXCEPT !.pc = "writing"]
                   ELSE Rejected(t, "Referenced event does not exist.")]
    /\ UNCHANGED <<events, bookings, nextEvent, nextBooking, ops>>
    /\ UNCHANGED <<pureVars, connVars>>

\* The database executes the insert or the update of a Booking save.
BookingWrite(t) ==
    /\ task[t].pc = "writing"
    /\ task[t].op = "booking"
    /\ IF task[t].isNew
       THEN /\ bookings' = [b \in DOMAIN bookings \cup {nextBooking} |->
                               IF b = nextBooking THEN task[t].bk ELSE bookings[b]]
            /\ nextBooking' = nextBooking + 1
            /\ task' = [task EXCEPT ![t] = Done("booking", nextBooking)]
       ELSE IF task[t].id \notin DOMAIN bookings
            THEN /\ task' = [task EXCEPT ![t] = Rejected(t, "DocumentNotFoundError")]
                 /\ UNCHANGED <<bookings, nextBooking>>
            ELSE /\ bookings' = [bookings EXCEPT ![task[t].id] =
                                   Merge(bookings[task[t].id], task[t].bk, task[t].modified)]
                 /\ task' = [task EXCEPT ![t] = Done("booking", task[t].id)]
                 /\ UNCHANGED nextBooking
    /\ UNCHANGED <<events, nextEvent, ops>>
    /\ UNCHANGED <<pureVars, connVars>>

DbIdle ==
    /\ events = <<>>
    /\ bookings = <<>>
    /\ task = [t \in Tasks |-> IdleTask]
    /\ nextEvent = 1
    /\ nextBooking = 1
    /\ ops = 0

----------------------------------------------------------------------------
(* The cached connection: globalThis.mongooseCache and connectToDatabase.  *)

NumCallers  == 3
MaxReloads  == 2
MaxAttempts == 3

Callers == 1..NumCallers

\* cached is a record of two references: conn, the handle a fulfilled
\* attempt resolved to, and promise, the attempt awaited; 0 is null. heap
\* holds the cache objects ever allocated, globalRef is
\* globalThis.mongooseCache and moduleRef the object the module constant
\* `cached` is bound to; a call keeps the binding of the module instance
\* it was started from.
EmptyCache == [conn |-> 0, promise |-> 0]

\* The module constant bound to a fresh object at every evaluation.
FreshCacheRef(heap, globalRef) == Len(heap) + 1

\* const cached = globalThis.mongooseCache ?? { conn: null, promise: null }
CachedRef(heap, globalRef) ==
    IF globalRef # 0 THEN globalRef ELSE Len(heap) + 1

\* if (!cached.promise) taken on every call.
PromiseAlwaysMissing(c) == TRUE

\* if (!cached.promise)
PromiseMissing(c) == c.promise = 0

\* The early return never taken.
ConnNeverCached(c) == FALSE

\* if (cached.conn)
ConnCached(c) == c.conn # 0

\* An await that resumes only when its promise is fulfilled.
SettledOnlyIfFulfilled(a) == attempt[a] = "fulfilled"

\* await cached.promise resumes once the promise has settled.
Settled(a) == attempt[a] # "pending"

\* A settled promise taken as fulfilled whatever its outcome.
AttemptNeverThrows(a) == TRUE

\* await cached.promise yields the handle; a rejected promise throws instead.
AttemptFulfilled(a) == attempt[a] = "fulfilled"

\* early: the awaited attempt was still pending when the call joined it.
\* gen: how many times the module had been re-evaluated when the call began.
IdleCaller ==
    [pc |-> "idle", ref |-> 0, awaits |-> 0, early |-> FALSE, gen |-> 0, result |-> 0]

ConnIdle ==
    /\ cached = [heap |-> <<EmptyCache>>, globalRef |-> 1, moduleRef |-> 1]
    /\ attempt = <<>>
    /\ caller = [c \in Callers |-> IdleCaller]
    /\ reloads = 0

\* The connection module is evaluated again (hot reload).
Reload ==
    /\ reloads < MaxReloads
    /\ LET ref == CachedRef(cached.heap, cached.globalRef) IN
       cached' = [heap |-> IF ref > Len(cached.heap)
                            THEN Append(cached.heap, EmptyCache) ELSE cached.heap,
                  globalRef |-> ref,
                  moduleRef |-> ref]
    /\ reloads' = reloads + 1
    /\ UNCHANGED <<attempt, caller>>
    /\ UNCHANGED <<pureVars, dbVars>>

\* connectToDatabase() up to its await, or to its early return.
Connect(c) ==
    /\ caller[c].pc = "idle"
    /\ Len(attempt) < MaxAttempts
    /\ LET ref == cached.moduleRef
           obj == cached.heap[ref]
       IN  IF ConnCached(obj)
           THEN /\ caller' = [caller EXCEPT ![c] =
                                 [pc |-> "returned", ref |-> ref, awaits |-> 0,
                                  early |-> FALSE, gen |-> reloads,
                                  result |-> obj.conn]]
                /\ UNCHANGED <<cached, attempt>>
           ELSE IF PromiseMissing(obj)
           THEN /\ attempt' = Append(attempt, "pending")
                /\ cached' = [cached EXCEPT !.heap[ref].promise = Len(attempt) + 1]
                /\ caller' = [caller EXCEPT ![c] =
                                 [pc |-> "awaiting", ref |-> ref,
                                  awaits |-> Len(attempt) + 1, early |-> TRUE,
                                  gen |-> reloads, result |-> 0]]
           ELSE /\ caller' = [caller EXCEPT ![c] =
                                 [pc |-> "awaiting", ref |-> ref,
                                  awaits |-> obj.promise,
                                  early |-> attempt[obj.promise] = "pending",
                                  gen |-> reloads, result |-> 0]]
                /\ UNCHANGED <<cached, attempt>>
    /\ UNCHANGED reloads
    /\ UNCHANGED <<pureVars, dbVars>>

\* mongoose.connect settles: attempt a resolves to handle a, or fails.
Settle(a) ==
    /\ a \in DOMAIN attempt
    /\ attempt[a] = "pending"
    /\ \E outcome \in {"fulfilled", "rejected"} :
          attempt' = [attempt EXCEPT ![a] = outcome]
    /\ UNCHANGED <<cached, caller, reloads>>
    /\ UNCHANGED <<pureVars, dbVars>>

\* cached.conn = await cached.promise; return cached.conn;
Resume(c) ==
    /\ caller[c].pc = "awaiting"
    /\ Settled(caller[c].awaits)
    /\ IF AttemptFulfilled(caller[c].awaits)
       THEN /\ cached' = [cached EXCEPT !.heap[caller[c].ref].conn = caller[c].awaits]
            /\ caller' = [caller EXCEPT ![c].pc = "returned",
                                        ![c].result = caller[c].awaits]
       ELSE /\ caller' = [caller EXCEPT ![c].pc = "threw"]
            /\ UNCHANGED cached
    /\ UNCHANGED <<attempt, reloads>>
    /\ UNCHANGED <<pureVars, dbVars>>

\* The caller is done with the handle or the error and may call again.
Finish(c) ==
    /\ caller[c].pc \in {"returned", "threw"}
    /\ caller' = [caller EXCEPT ![c] = IdleCaller]
    /\ UNCHANGED <<cached, attempt, reloads>>
    /\ UNCHANGED <<pureVars, dbVars>>

----------------------------------------------------------------------------
(* Specifications.                                                         *)

\* The persistence layer: Event and Booking saves, interleaved.
Init == PureIdle /\ DbIdle /\ ConnIdle

Next ==
    \/ \E t \in Tasks : EventCreate(t)
    \/ \E t \in Tasks : EventUpdate(t)
    \/ \E t \in Tasks : EventWrite(t)
    \/ \E e \in DOMAIN events : EventDelete(e)
    \/ \E t \in Tasks : BookingCreate(t)
    \/ \E t \in Tasks : BookingUpdate(t)
    \/ \E t \in Tasks : BookingCheck(t)
    \/ \E t \in Tasks : BookingWrite(t)
    \/ \E t \in Tasks : Return(t)

Spec == Init /\ [][Next]_vars

\* The connection manager.
NextConn ==
    \/ Reload
    \/ \E c \in Callers : Connect(c)
    \/ \E a \in DOMAIN attempt : Settle(a)
    \/ \E c \in Callers : Resume(c)
    \/ \E c \in Callers : Finish(c)

SpecConn == Init /\ [][NextConn]_vars

\* The connection manager on the event loop: a settled promise resumes
\* each of its awaiters, and the connection attempt itself settles.
SpecConnFair ==
    /\ SpecConn
    /\ WF_vars(\E a \in DOMAIN attempt : Settle(a))
    /\ \A c \in Callers : WF_vars(Resume(c))

\* slugifyTitle on every title of the bounded set.
InitSlug ==
    /\ titleIn \in Titles
    /\ slugOut = NoRes
    /\ timeSrc = NoSource /\ timeIn = <<>>
    /\ timeOut = NoRes /\ timeOut2 = NoRes /\ singleOut = NoRes
    /\ saveIn = NoSave /\ saveOut = NoSave
    /\ DbIdle /\ ConnIdle

SpecSlug == InitSlug /\ [][CallSlugify]_vars

\* normalizeTime and normalizeSingleTime on every input of the bounded set.
InitTime ==
    /\ titleIn = <<>> /\ slugOut = NoRes
    /\ timeSrc \in TimeSources
    /\ timeIn = RenderSource(timeSrc)
    /\ timeOut = NoRes /\ timeOut2 = NoRes /\ singleOut = NoRes
    /\ saveIn = NoSave /\ saveOut = NoSave
    /\ DbIdle /\ ConnIdle

NextTime ==
    \/ CallNormalizeTime
    \/ CallNormalizeTimeAgain
    \/ CallNormalizeSingleTime

SpecTime == InitTime /\ [][NextTime]_vars

\* Validation and the pre-save hook on every document of the bounded set.
InitSave ==
    /\ titleIn = <<>> /\ slugOut = NoRes
    /\ timeSrc = NoSource /\ timeIn = <<>>
    /\ timeOut = NoRes /\ timeOut2 = NoRes /\ singleOut = NoRes
    /\ saveIn \in SaveInputs
    /\ saveOut = NoSave
    /\ DbIdle /\ ConnIdle

SpecSave == InitSave /\ [][EventSave]_vars

----------------------------------------------------------------------------
(* Properties.                                                             *)

\* HH:mm with hour 00..23 and minute 00..59.
CanonicalSingle(s) ==
    /\ Len(s) = 5
    /\ \A i \in {1, 2, 4, 5} : IsDigit(s[i])
    /\ s[3] = ":"
    /\ 10 * DigitVal(s[1]) + DigitVal(s[2]) <= 23
    /\ 10 * DigitVal(s[4]) + DigitVal(s[5]) <= 59

\* HH:mm or HH:mm-HH:mm.
CanonicalTime(s) ==
    \/ CanonicalSingle(s)
    \/ /\ Len(s) = 11
       /\ CanonicalSingle(SubSeq(s, 1, 5))
       /\ s[6] = "-"
       /\ CanonicalSingle(SubSeq(s, 7, 11))

\* C1: however many connectToDatabase() calls begin before the first
\* connection attempt has resolved, one mongoose.connect attempt is issued
\* in the process, every such call awaits that attempt, and every one that
\* returns holds the handle that attempt resolved to.
C1_OneAttemptSameHandle ==
    /\ Len(attempt) <= 1
    /\ (\E c \in Callers : caller[c].pc # "idle") => Len(attempt) = 1
    /\ \A c \in Callers : caller[c].pc = "awaiting" => caller[c].awaits = 1
    /\ \A c, d \in Callers :
          (caller[c].pc = "returned" /\ caller[d].pc = "returned")
              => (caller[c].result = caller[d].result /\ caller[c].result = 1)

\* Two calls that joined the attempt while it was pending have both returned.
C1_Witness ==
    \E c, d \in Callers :
        /\ c # d
        /\ caller[c].pc = "returned" /\ caller[c].early
        /\ caller[d].pc = "returned" /\ caller[d].early
        /\ caller[c].result = caller[d].result
        /\ Len(attempt) = 1

\* C2: no booking is committed (inserted, or given a new eventId) while
\* the event its eventId names is absent from the Event collection.
C2_NoDanglingCommit ==
    [][\A b \in DOMAIN bookings' :
          (b \notin DOMAIN bookings \/ bookings'[b].eventId # bookings[b].eventId)
              => bookings'[b].eventId \in DOMAIN events']_vars

\* C3: when the existence read of a new booking's save finds no event with
\* its eventId, the save fails with "Referenced event does not exist.", the
\* Booking collection is left as it was, and the failed save never writes.
C3_MissingEventRejected ==
    /\ [][\A t \in Tasks :
            (/\ task[t].pc = "checking"
             /\ task[t].isNew
             /\ task'[t] # task[t]
             /\ task[t].bk.eventId \notin DOMAIN events)
                => (/\ task'[t].pc = "rejected"
                    /\ task'[t].err = "Referenced event does not exist."
                    /\ bookings' = bookings)]_vars
    /\ [][\A t \in Tasks :
            task[t].pc = "rejected" => task'[t].pc \in {"rejected", "idle"}]_vars

\* A booking save has been rejected by the referential check.
C3_Witness ==
    \E t \in Tasks :
        /\ task[t].pc = "rejected"
        /\ task[t].op = "booking"
        /\ task[t].err = "Referenced event does not exist."
        /\ bookings = <<>>

UniqueSlugs ==
    \A e, f \in DOMAIN events : e # f => events[e].slug # events[f].slug

\* C4: no two stored events ever hold the same slug, and a write that
\* carries a slug held by another stored event fails with the duplicate-key
\* error and stores nothing.
C4_SlugUnique ==
    /\ []UniqueSlugs
    /\ [][\A t \in Tasks :
            (/\ task[t].pc = "writing"
             /\ task[t].op = "event"
             /\ task'[t] # task[t]
             /\ \/ task[t].isNew
                \/ task[t].id \in DOMAIN events /\ "slug" \in task[t].modified
             /\ \E e \in DOMAIN events :
                   /\ task[t].isNew \/ e # task[t].id
                   /\ events[e].slug = task[t].doc.slug)
                => (/\ task'[t].pc = "rejected"
                    /\ task'[t].err = "E11000 duplicate key"
                    /\ events' = events)]_vars

\* Of two saves in flight together, one is stored and the other is refused
\* by the unique index.
C4_Witness ==
    \E t, u \in Tasks :
        /\ task[t].pc = "rejected" /\ task[t].err = "E11000 duplicate key"
        /\ task[u].pc = "persisted" /\ task[u].op = "event"
        /\ task[u].id \in DOMAIN events
        /\ events[task[u].id].slug = <<"a", "-", "b">>

\* What a document holds once every pre-commit step of its save has passed.
PassedEventChecks(doc) ==
    /\ Len(doc.date) = 24 /\ SubSeq(doc.date, 11, 24) = IsoSuffix
    /\ CanonicalTime(doc.time)
    /\ \A f \in {"title", "date", "time", "description"} : Trim(doc[f]) # <<>>

\* C5: a save goes on to its write only if every pre-commit step passed;
\* a save that fails carries an error, never writes afterwards, and no
\* step of a save other than its final successful write changes the Event
\* or the Booking collection.
C5_FailedSaveWritesNothing ==
    /\ [](\A t \in Tasks :
            /\ (task[t].op = "event" /\ task[t].pc = "writing")
                  => PassedEventChecks(task[t].doc)
            /\ (task[t].op = "booking" /\ task[t].pc \in {"checking", "writing"})
                  => EmailMatches(task[t].bk.email)
            /\ task[t].pc = "rejected" => task[t].err # "")
    /\ [][\A t \in Tasks :
            /\ (task'[t] # task[t] /\ task'[t].pc # "persisted")
                  => (events' = events /\ bookings' = bookings)
            /\ task[t].pc = "rejected" => task'[t].pc \in {"rejected", "idle"}
            /\ (task[t].pc = "checking" /\ task'[t].pc = "writing")
                  => task[t].bk.eventId \in DOMAIN events]_vars

\* An Event save stopped by the time step and a Booking save stopped by the
\* email validator, with an event already stored.
C5_Witness ==
    \E t, u \in Tasks :
        /\ task[t].pc = "rejected" /\ task[t].err = "Invalid time format"
        /\ task[u].pc = "rejected"
        /\ task[u].err = "ValidationError: Invalid email address."
        /\ DOMAIN events # {}

\* C6: every stored event's slug is slugifyTitle of its stored title.
C6_SlugDerivedFromTitle ==
    \A e \in DOMAIN events : events[e].slug = slugifyTitle(events[e].title)

\* ^[a-z0-9]+(-[a-z0-9]+)*$
SlugShape(s) ==
    /\ s # <<>>
    /\ \A i \in DOMAIN s : IsSlugChar(s[i]) \/ s[i] = "-"
    /\ s[1] # "-"
    /\ s[Len(s)] # "-"
    /\ \A i \in 1..(Len(s) - 1) : ~(s[i] = "-" /\ s[i + 1] = "-")

\* A letter A-Z, a-z or a digit occurs in s.
HasAlphanumeric(s) ==
    \E i \in DOMAIN s :
        s[i] \in Range(LowerLetters) \cup Range(UpperLetters) \cup Range(Digits)

\* C7: slugifyTitle(T) holds no capital letter, is empty or of the shape
\* ^[a-z0-9]+(-[a-z0-9]+)*$, and is empty only when T holds no letter
\* A-Z, a-z and no digit.
C7_SlugShape ==
    slugOut.ok =>
        /\ \A i \in DOMAIN slugOut.val : slugOut.val[i] = LowerChar(slugOut.val[i])
        /\ slugOut.val = <<>> \/ SlugShape(slugOut.val)
        /\ slugOut.val = <<>> => ~HasAlphanumeric(titleIn)

\* A title with a capital, a run of separators and a digit has been slugified.
C7_Witness ==
    /\ titleIn = <<"B", " ", "-", "1">>
    /\ slugOut.ok
    /\ slugOut.val = <<"b", "-", "1">>

\* C8: the time of every stored event is HH:mm or HH:mm-HH:mm, zero-padded,
\* hours 00..23 and minutes 00..59.
C8_StoredTimeCanonical ==
    \A e \in DOMAIN events : CanonicalTime(events[e].time)

\* An event given the range "9:00 - 10:00" is stored.
C8_Witness ==
    \E e \in DOMAIN events :
        events[e].time = <<"0", "9", ":", "0", "0", "-", "1", "0", ":", "0", "0">>

\* C9: whenever normalizeTime accepts x, normalizeTime applied to its
\* result succeeds and returns that same result.
C9_NormalizeTimeIdempotent ==
    (timeOut.ok /\ timeOut2 # NoRes) => timeOut2 = timeOut

\* A 12-hour range was normalised, and normalised again.
C9_Witness ==
    /\ timeSrc.kind = "range"
    /\ timeSrc.a.sfx = <<" ", "P", "M">>
    /\ timeSrc.b.sfx = <<" ", "P", "M">>
    /\ timeOut.ok
    /\ timeOut2.ok
    /\ timeOut.val # timeIn

\* A token h:mm AM or h:mm PM with h in 1..12 and mm in 00..59.
IsTwelveHourToken(t) ==
    /\ t.h \in 1..12
    /\ t.m \in 0..59
    /\ t.sfx \in { <<" ", "A", "M">>, <<" ", "P", "M">> }

\* The 24-hour time the token stands for.
TwentyFourHourOf(t) ==
    LET hour == IF t.sfx = <<" ", "A", "M">>
                THEN (IF t.h = 12 THEN 0 ELSE t.h)
                ELSE (IF t.h = 12 THEN 12 ELSE t.h + 12)
    IN  TwoDigits(hour) \o <<":">> \o TwoDigits(t.m)

\* C10: normalizeSingleTime turns every 12-hour token into its zero-padded
\* 24-hour time (12 AM is 00, 12 PM is 12, other PM hours gain 12), minutes
\* unchanged, and normalizeTime turns a range of two such tokens into the
\* two times joined by one hyphen.
C10_TwelveHourConversion ==
    /\ (timeSrc.kind = "single" /\ IsTwelveHourToken(timeSrc.a) /\ singleOut # NoRes)
          => singleOut = Ok(TwentyFourHourOf(timeSrc.a))
    /\ (/\ timeSrc.kind = "range"
        /\ IsTwelveHourToken(timeSrc.a)
        /\ IsTwelveHourToken(timeSrc.b)
        /\ timeOut # NoRes)
          => timeOut = Ok(TwentyFourHourOf(timeSrc.a) \o <<"-">> \o TwentyFourHourOf(timeSrc.b))

\* The range "12:59 AM - 9:00 PM" was normalised.
C10_Witness ==
    /\ timeSrc.kind = "range"
    /\ timeSrc.a = [h |-> 12, pad |-> FALSE, m |-> 59, sfx |-> <<" ", "A", "M">>]
    /\ timeSrc.b = [h |-> 9, pad |-> FALSE, m |-> 0, sfx |-> <<" ", "P", "M">>]
    /\ timeSrc.sep = <<" ", "-", " ">>
    /\ timeOut = Ok(<<"0", "0", ":", "5", "9", "-", "2", "1", ":", "0", "0">>)

\* The cache object the module constant is bound to.
TheCache == cached.heap[cached.moduleRef]

\* C11: once the handle is cached, every later call returns it at once and
\* issues no attempt; the handle never changes; the process holds one cache
\* object whose conn and promise name the one attempt, and never more than
\* one attempt is issued.
C11_CachedHandleReused ==
    /\ [](/\ Len(attempt) <= 1
          /\ Len(cached.heap) = 1
          /\ TheCache.conn \in {0} \cup DOMAIN attempt
          /\ TheCache.promise \in {0} \cup DOMAIN attempt
          /\ TheCache.conn # 0 => attempt[TheCache.conn] = "fulfilled")
    /\ [][/\ TheCache.conn # 0 => cached' = cached
          /\ \A c \in Callers :
                (TheCache.conn # 0 /\ caller[c].pc = "idle" /\ caller'[c].pc # "idle")
                    => (/\ caller'[c].pc = "returned"
                        /\ caller'[c].result = TheCache.conn
                        /\ attempt' = attempt)]_vars

\* A call made after the handle was cached has returned it without awaiting.
C11_Witness ==
    \E c \in Callers :
        /\ caller[c].pc = "returned"
        /\ caller[c].awaits = 0
        /\ caller[c].result = 1
        /\ Len(attempt) = 1

\* C12: a connectToDatabase() call that begins after an attempt has failed
\* issues a new attempt.
C12_RetryAfterFailure ==
    [][\A c \in Callers :
          (/\ caller[c].pc = "idle"
           /\ caller'[c].pc # "idle"
           /\ attempt # <<>>
           /\ \A a \in DOMAIN attempt : attempt[a] = "rejected")
              => Len(attempt') = Len(attempt) + 1]_vars

\* C13: when the attempt fails, each call awaiting it throws when it
\* resumes, conn stays null, and no call holds a handle of a failed attempt.
C13_FailureReachesAwaiters ==
    /\ [](\A a \in DOMAIN attempt :
            attempt[a] = "rejected" =>
                /\ \A i \in DOMAIN cached.heap : cached.heap[i].conn # a
                /\ \A c \in Callers : caller[c].result # a
                /\ \A c \in Callers :
                      caller[c].awaits = a => caller[c].pc \in {"awaiting", "threw"})
    /\ [][\A c \in Callers :
            (/\ caller[c].pc = "awaiting"
             /\ attempt[caller[c].awaits] = "rejected"
             /\ caller'[c] # caller[c])
                => (caller'[c].pc = "threw" /\ cached' = cached)]_vars

\* Two calls that joined the attempt while it was pending have both thrown.
C13_Witness ==
    \E c, d \in Callers :
        /\ c # d
        /\ caller[c].pc = "threw" /\ caller[c].early
        /\ caller[d].pc = "threw" /\ caller[d].early
        /\ attempt = <<"rejected">>
        /\ TheCache.conn = 0

\* C14: however often the module is re-evaluated, and wherever among the
\* calls, the module constant stays bound to the one cache object on
\* globalThis, and no second attempt is issued.
C14_ReloadKeepsCache ==
    /\ Len(cached.heap) = 1
    /\ cached.moduleRef = cached.globalRef
    /\ \A c \in Callers : caller[c].pc # "idle" => caller[c].ref = cached.moduleRef
    /\ reloads > 0 => Len(attempt) <= 1

\* Calls begun before and after a re-evaluation hold the same handle.
C14_Witness ==
    \E c, d \in Callers :
        /\ caller[c].pc = "returned" /\ caller[d].pc = "returned"
        /\ caller[c].gen < caller[d].gen
        /\ caller[c].result = caller[d].result
        /\ Len(attempt) = 1

\* C19: every call that awaits the connection attempt eventually returns
\* the handle or throws the connection error.
C19_CallsComplete ==
    \A c \in Callers :
        (caller[c].pc = "awaiting") ~> (caller[c].pc \in {"returned", "threw"})

\* A call that joined the pending attempt and one that joined it after it
\* had settled have both completed.
C19_Witness ==
    \E c, d \in Callers :
        /\ caller[c].pc \in {"returned", "threw"} /\ caller[c].awaits = 1 /\ caller[c].early
        /\ caller[d].pc \in {"returned", "threw"} /\ caller[d].awaits = 1 /\ ~caller[d].early

\* C15: the existence read of a Booking save happens exactly when eventId
\* is modified: a new booking that passes validation is always checked; a
\* save of a stored booking is checked if and only if it assigns another
\* eventId, and otherwise goes to its write with no read of the Event
\* collection and is never answered with the referential error.
C15_CheckIffEventIdModified ==
    /\ [](\A t \in Tasks :
            (task[t].op = "booking" /\ task[t].pc = "checking")
                => "eventId" \in task[t].modified)
    /\ [][\A t \in Tasks :
            /\ (/\ task[t].pc = "idle"
                /\ task'[t].op = "booking"
                /\ task'[t].pc \notin {"idle", "rejected"})
                  => IF task'[t].isNew
                     THEN task'[t].pc = "checking"
                     ELSE (task'[t].pc = "checking")
                            <=> (task'[t].bk.eventId # bookings[task'[t].id].eventId)
            /\ (/\ task'[t].err = "Referenced event does not exist."
                /\ task[t].err # task'[t].err)
                  => (task[t].pc = "checking" /\ "eventId" \in task[t].modified)
            /\ (task[t].op = "booking" /\ task[t].pc = "writing")
                  => task'[t].pc # "checking"]_vars

\* A stored booking whose event has been deleted is being saved with a new
\* email and the same eventId: the save is at its write, unchecked.
C15_Witness ==
    \E t \in Tasks :
        /\ task[t].op = "booking"
        /\ task[t].pc = "writing"
        /\ ~task[t].isNew
        /\ task[t].modified = {"email"}
        /\ task[t].bk.eventId \notin DOMAIN events

\* What each step of a save makes of the document handed over.
EmptyRequired(o) == \E f \in EventFields \ {"slug"} : Trim(o.doc[f]) = <<>>
DateUnparseable(o) == ~ParseDate(o.doc.date).ok
TimeMalformed(o) == ~normalizeTime(o.doc.time).ok

\* C16: in a save whose hook runs, the slug after the hook is the slug the
\* document had before it when title is not modified, and
\* slugifyTitle(title) of the new title when title is modified.
C16_SlugFollowsTitleModified ==
    (saveOut # NoSave /\ ~EmptyRequired(saveIn)) =>
        IF "title" \in saveIn.modified
        THEN saveOut.doc.slug = slugifyTitle(saveIn.doc.title)
        ELSE saveOut.doc.slug = saveIn.doc.slug

\* A save that assigns slug but not title has kept the assigned slug.
C16_Witness ==
    /\ saveOut # NoSave
    /\ saveOut.err = ""
    /\ "title" \notin saveIn.modified
    /\ "slug" \in saveIn.modified
    /\ saveOut.doc.slug = <<"X", " ", "y">>

\* C17 as stated: the error of a save is that of the first failing step in
\* the order date normalization, time normalization, emptiness checks: the
\* date error when date and time are both bad, the time error when the
\* time is malformed and a required field is empty.
C17_HookOrderDecidesError ==
    saveOut # NoSave =>
        saveOut.err =
            IF DateUnparseable(saveIn) THEN "Invalid date"
            ELSE IF TimeMalformed(saveIn) THEN normalizeTime(saveIn.doc.time).err
            ELSE IF EmptyRequired(saveIn) THEN "Field cannot be empty."
            ELSE ""

\* C17, amended: a document with an empty required field is rejected by
\* schema validation before the hook runs; otherwise the hook's steps run
\* in the order slug derivation, date normalization, time normalization,
\* and the first failing one decides the error: the date error when date and
\* time are both bad, with the slug already derived; the time error only
\* with the date already normalized.
C17_ValidationThenHookOrder ==
    saveOut # NoSave =>
        /\ saveOut.err =
              IF EmptyRequired(saveIn) THEN "ValidationError: Path is required."
              ELSE IF DateUnparseable(saveIn) THEN "Invalid date"
              ELSE IF TimeMalformed(saveIn) THEN normalizeTime(saveIn.doc.time).err
              ELSE ""
        /\ (saveOut.err = "Invalid date" /\ "title" \in saveIn.modified)
              => saveOut.doc.slug = slugifyTitle(saveIn.doc.title)
        /\ saveOut.err \in {"Invalid time format", "Invalid time range"}
              => saveOut.doc.date = ParseDate(saveIn.doc.date).val
        /\ saveOut.err = "ValidationError: Path is required."
              => saveOut.doc = saveIn.doc

\* A save with a malformed time and an empty required field has been
\* rejected with the validation error of the empty field.
C17_Witness ==
    /\ saveOut # NoSave
    /\ TimeMalformed(saveIn)
    /\ ~DateUnparseable(saveIn)
    /\ EmptyRequired(saveIn)
    /\ saveOut.err = "ValidationError: Path is required."

\* A token that is a 24-hour time (hour 0..23) or a 12-hour time with AM or
\* PM in either case (hour 1..12), minute 0..59, judged from how the token
\* was put together.
ValidToken(t) ==
    /\ t.m \in 0..59
    /\ \/ t.sfx = <<>> /\ t.h \in 0..23
       \/ /\ t.sfx \in { <<" ", "A", "M">>, <<" ", "P", "M">>, <<"a", "m">>,
                         <<"p", "M">>, <<" ", " ", "P", "M">>, <<"A", "M", " ">> }
          /\ t.h \in 1..12

\* The odd texts with no token or with three, and those with one valid
\* token beside an empty part.
WrongCountTexts ==
    { <<>>, <<"-">>, <<" ">>,
      <<"1", ":", "0", "0", "-", "2", ":", "0", "0", "-", "3", ":", "0", "0">> }
OneTokenTexts == { <<"9", ":", "0", "0", "-">>, <<"-", "9", ":", "0", "0">> }

\* C18: normalizeTime accepts exactly the inputs whose non-empty trimmed
\* parts around '-' are one or two valid tokens; with another number of
\* parts it fails with the range error naming the whole input; with a
\* malformed token it fails with the format error naming that token, the
\* first one when both are malformed.
C18_NormalizeTimeAccepts ==
    timeOut # NoRes =>
        /\ timeSrc.kind = "single" =>
              IF ValidToken(timeSrc.a) THEN timeOut.ok
              ELSE timeOut = Throw("Invalid time format", Trim(RenderToken(timeSrc.a)))
        /\ timeSrc.kind = "range" =>
              IF ~ValidToken(timeSrc.a)
              THEN timeOut = Throw("Invalid time format", RenderToken(timeSrc.a))
              ELSE IF ~ValidToken(timeSrc.b)
              THEN timeOut = Throw("Invalid time format", RenderToken(timeSrc.b))
              ELSE timeOut.ok
        /\ timeSrc.kind = "odd" =>
              IF timeSrc.text \in WrongCountTexts
              THEN timeOut = Throw("Invalid time range", timeSrc.text)
              ELSE IF timeSrc.text \in OneTokenTexts
              THEN timeOut = Ok(<<"0", "9", ":", "0", "0">>)
              ELSE timeOut = Throw("Invalid time format", timeSrc.text)

\* normalizeTime("25:00") has failed with the format error naming "25:00".
C18_Witness ==
    /\ timeIn = <<"2", "5", ":", "0", "0">>
    /\ timeOut = Throw("Invalid time format", <<"2", "5", ":", "0", "0">>)

====
